---- MODULE Spec2Model ----
(***************************************************************************)
(* Model of tools/manager/whids-man.go: the manager's command line entry   *)
(* point (flag dispatch, configuration loading), generateCert (self-signed *)
(* certificate and key written to cert.pem / key.pem) and the run          *)
(* lifecycle (signal.Notify on an unbuffered channel, the listener         *)
(* goroutine, manager.Run / manager.Wait on the main goroutine).           *)
(*                                                                         *)
(* Strings that the program inspects character by character (host names    *)
(* handed to net.ParseIP) are sequences of one-character strings.          *)
(***************************************************************************)
EXTENDS Integers, Sequences, FiniteSets, TLC

\* ------------------------------------------------------------------ bounds

\* Longest host list handed to generateCert in GenSpec.
MaxHosts == 2
\* Most interrupts the environment delivers during one process lifetime.
MaxSignals == 2

\* ------------------------------------------------------------- host strings

Host_10_0_0_5 == <<"1","0",".","0",".","0",".","5">>
Host_256_0_0_1 == <<"2","5","6",".","0",".","0",".","1">>
Host_manager_internal == <<"m","a","n","a","g","e","r",".","i","n","t","e","r","n","a","l">>
Host_empty == <<>>

\* The host strings the model draws from.  None holds a ':' (parseIPv6 is
\* not modelled) and none has an octet with a leading zero.
HostUniverse == {Host_10_0_0_5, Host_256_0_0_1, Host_manager_internal, Host_empty}

\* ------------------------------------------------------------- net.ParseIP

DigitValue(c) ==
    CASE c = "0" -> 0 [] c = "1" -> 1 [] c = "2" -> 2 [] c = "3" -> 3
      [] c = "4" -> 4 [] c = "5" -> 5 [] c = "6" -> 6 [] c = "7" -> 7
      [] c = "8" -> 8 [] c = "9" -> 9 [] OTHER -> -1

\* dtoi: the decimal number at the head of s, the count of characters it
\* takes, and whether there was one (big numbers are not ok).
RECURSIVE DtoiFrom(_, _, _)
DtoiFrom(s, i, n) ==
    IF i > Len(s) \/ DigitValue(s[i]) < 0
    THEN [n |-> n, c |-> i - 1, ok |-> i > 1]
    ELSE IF n * 10 + DigitValue(s[i]) >= 16777215
         THEN [n |-> 16777215, c |-> i, ok |-> FALSE]
         ELSE DtoiFrom(s, i + 1, n * 10 + DigitValue(s[i]))

Dtoi(s) == DtoiFrom(s, 1, 0)

Drop(s, k) == SubSeq(s, k + 1, Len(s))

\* parseIPv4: four decimal octets separated by dots and nothing else; <<>>
\* stands for the nil IP.
RECURSIVE ParseIPv4From(_, _, _)
ParseIPv4From(s, i, p) ==
    IF i = 4
    THEN IF Len(s) # 0 THEN <<>> ELSE p
    ELSE IF Len(s) = 0 THEN <<>>
    ELSE IF i > 0 /\ s[1] # "." THEN <<>>
    ELSE LET t == IF i > 0 THEN Drop(s, 1) ELSE s
             d == Dtoi(t)
         IN  IF ~d.ok \/ d.n > 255 THEN <<>>
             ELSE ParseIPv4From(Drop(t, d.c), i + 1, Append(p, d.n))

ParseIPv4(s) == ParseIPv4From(s, 0, <<>>)

\* net.ParseIP: a string with a '.' is tried as IPv4; one with neither '.'
\* nor ':' is no IP.
ParseIP(s) ==
    IF \E i \in 1..Len(s) : s[i] = "." THEN ParseIPv4(s) ELSE <<>>

\* ------------------------------------------------------------------- state

VARIABLES
    keygen, certgen, dumpConfig, \* the flags -key, -certgen, -dump-config
    configFile,      \* what os.Open / ReadAll / Unmarshal will find at flag.Arg(0)
    managerConf,     \* the package variable managerConf
    mainPc,          \* position of the main goroutine
    exitCode,        \* -1 while the process runs, else its exit status
    stdout,          \* what main has printed
    configOpens,     \* number of os.Open calls on the configuration file
    hosts,           \* parameter of generateCert
    gcPc,            \* position inside generateCert
    gcErr,           \* error returned by generateCert ("" is nil)
    priv,            \* generateCert's private key ("" before generation)
    template,        \* generateCert's x509.Certificate template (SAN lists)
    fs,              \* cert.pem and key.pem in the working directory, each
                     \* "absent", "old" (left by an earlier run), "empty"
                     \* (created or truncated), "partial" or "pem"
    fs0,             \* the same two files when the process started
    ioLog,           \* generateCert's calls with side effects, in order
    manager,         \* state of the manager handle
    stopRequested,   \* the manager was asked to stop before it ran
    calls,           \* calls made on the manager, with the handle state seen
    notified,        \* signal.Notify(osSignals, os.Interrupt) has been executed
    listenerPc,      \* position of the signal-listener goroutine
    signals          \* interrupts delivered after signal.Notify, in order:
                     \* "received" by the listener, or "dropped"

cliVars == <<keygen, certgen, dumpConfig, configFile, managerConf, mainPc,
             exitCode, stdout, configOpens>>
gcVars  == <<hosts, gcPc, gcErr, priv, template, fs, fs0, ioLog>>
runVars == <<manager, stopRequested, calls, notified, listenerPc,
             signals>>
vars    == <<cliVars, gcVars, runVars>>

Alive == exitCode = -1

EmptyTemplate == [IPAddresses |-> <<>>, DNSNames |-> <<>>]

\* ------------------------------------------------------------ generateCert

\* The range loop over hosts: an IP literal is appended to IPAddresses,
\* anything else to DNSNames.
RECURSIVE ClassifyHosts(_, _)
ClassifyHosts(hs, t) ==
    IF hs = <<>> THEN t
    ELSE LET h  == Head(hs)
             ip == ParseIP(h)
         IN  IF ip # <<>>
             THEN ClassifyHosts(Tail(hs), [t EXCEPT !.IPAddresses = Append(@, ip)])
             ELSE ClassifyHosts(Tail(hs), [t EXCEPT !.DNSNames = Append(@, h)])

\* pemBlockForKey: the PEM block of an RSA or ECDSA key; a failure to
\* marshal an ECDSA key ends the process with status 2; any other key has
\* no block.
PemBlockForKey(k, marshalOk) ==
    CASE k = "rsa"   -> [kind |-> "block", Type |-> "RSA PRIVATE KEY"]
      [] k = "ecdsa" -> IF marshalOk
                        THEN [kind |-> "block", Type |-> "EC PRIVATE KEY"]
                        ELSE [kind |-> "exit", code |-> 2]
      [] OTHER       -> [kind |-> "nil"]

Io(op, ok) == [op |-> op, ok |-> ok]

GcReturn(err) == gcPc' = "returned" /\ gcErr' = err

GcRunning(pc) == Alive /\ gcPc = pc

\* Mutant of GenCheckHosts: the length of hosts is not checked.
GenCheckHostsUnchecked ==
    /\ GcRunning("entry")
    /\ gcPc' = "genkey"
    /\ UNCHANGED <<hosts, gcErr, priv, template, fs, fs0, ioLog, cliVars,
                   runVars>>

\* if len(hosts) == 0 { return error }
GenCheckHosts ==
    /\ GcRunning("entry")
    /\ IF Len(hosts) = 0
       THEN GcReturn("Missing required --host parameter")
       ELSE gcPc' = "genkey" /\ UNCHANGED gcErr
    /\ UNCHANGED <<hosts, priv, template, fs, fs0, ioLog, cliVars, runVars>>

\* priv, err = rsa.GenerateKey(rand.Reader, 4096)
GenKey ==
    /\ GcRunning("genkey")
    /\ \E ok \in BOOLEAN :
        /\ ioLog' = Append(ioLog, Io("rsa.GenerateKey", ok))
        /\ IF ok
           THEN priv' = "rsa" /\ gcPc' = "serial" /\ UNCHANGED gcErr
           ELSE GcReturn("failed to generate private key") /\ UNCHANGED priv
    /\ UNCHANGED <<hosts, template, fs, fs0, cliVars, runVars>>

\* serialNumber, err := rand.Int(rand.Reader, serialNumberLimit)
GenSerial ==
    /\ GcRunning("serial")
    /\ \E ok \in BOOLEAN :
        /\ ioLog' = Append(ioLog, Io("rand.Int", ok))
        /\ IF ok
           THEN gcPc' = "template" /\ UNCHANGED gcErr
           ELSE GcReturn("failed to generate serial number")
    /\ UNCHANGED <<hosts, priv, template, fs, fs0, cliVars, runVars>>

\* template := x509.Certificate{...} and the loop filling its SAN lists
GenTemplate ==
    /\ GcRunning("template")
    /\ template' = ClassifyHosts(hosts, EmptyTemplate)
    /\ gcPc' = "sign"
    /\ UNCHANGED <<hosts, gcErr, priv, fs, fs0, ioLog, cliVars, runVars>>

\* derBytes, err := x509.CreateCertificate(...)
GenCreateCertificate ==
    /\ GcRunning("sign")
    /\ \E ok \in BOOLEAN :
        /\ ioLog' = Append(ioLog, Io("x509.CreateCertificate", ok))
        /\ IF ok
           THEN gcPc' = "openCert" /\ UNCHANGED gcErr
           ELSE GcReturn("Failed to create certificate")
    /\ UNCHANGED <<hosts, priv, template, fs, fs0, cliVars, runVars>>

\* certOut, err := os.OpenFile("cert.pem", O_WRONLY|O_CREATE|O_TRUNC, 0600)
GenOpenCert ==
    /\ GcRunning("openCert")
    /\ \E ok \in BOOLEAN :
        /\ ioLog' = Append(ioLog, Io("open cert.pem", ok))
        /\ IF ok
           THEN /\ fs' = [fs EXCEPT !.cert = "empty"]
                /\ gcPc' = "encodeCert"
                /\ UNCHANGED gcErr
           ELSE /\ GcReturn("failed to open cert.pem for writing")
                /\ UNCHANGED fs
    /\ UNCHANGED <<hosts, priv, template, fs0, cliVars, runVars>>

\* pem.Encode(certOut, ...): the error it returns is not looked at
GenEncodeCert ==
    /\ GcRunning("encodeCert")
    /\ \E out \in {"pem", "partial", "empty"} :
        /\ ioLog' = Append(ioLog, Io("encode cert.pem", out = "pem"))
        /\ fs' = [fs EXCEPT !.cert = out]
    /\ gcPc' = "closeCert"
    /\ UNCHANGED <<hosts, gcErr, priv, template, fs0, cliVars, runVars>>

\* certOut.Close(): the error it returns is not looked at
GenCloseCert ==
    /\ GcRunning("closeCert")
    /\ \E ok \in BOOLEAN : ioLog' = Append(ioLog, Io("close cert.pem", ok))
    /\ gcPc' = "logCert"
    /\ UNCHANGED <<hosts, gcErr, priv, template, fs, fs0, cliVars, runVars>>

\* log.Info("Written cert.pem")
GenLogCert ==
    /\ GcRunning("logCert")
    /\ ioLog' = Append(ioLog, Io("log Written cert.pem", TRUE))
    /\ gcPc' = "openKey"
    /\ UNCHANGED <<hosts, gcErr, priv, template, fs, fs0, cliVars, runVars>>

\* Mutant of GenOpenKey: a failure to open key.pem removes cert.pem.
GenOpenKeyRollback ==
    /\ GcRunning("openKey")
    /\ \E ok \in BOOLEAN :
        /\ ioLog' = Append(ioLog, Io("open key.pem", ok))
        /\ IF ok
           THEN /\ fs' = [fs EXCEPT !.key = "empty"]
                /\ gcPc' = "encodeKey"
                /\ UNCHANGED gcErr
           ELSE /\ GcReturn("failed to open key.pem for writing")
                /\ fs' = [fs EXCEPT !.cert = "absent"]
    /\ UNCHANGED <<hosts, priv, template, fs0, cliVars, runVars>>

\* keyOut, err := os.OpenFile("key.pem", O_WRONLY|O_CREATE|O_TRUNC, 0600)
GenOpenKey ==
    /\ GcRunning("openKey")
    /\ \E ok \in BOOLEAN :
        /\ ioLog' = Append(ioLog, Io("open key.pem", ok))
        /\ IF ok
           THEN /\ fs' = [fs EXCEPT !.key = "empty"]
                /\ gcPc' = "encodeKey"
                /\ UNCHANGED gcErr
           ELSE /\ GcReturn("failed to open key.pem for writing")
                /\ UNCHANGED fs
    /\ UNCHANGED <<hosts, priv, template, fs0, cliVars, runVars>>

\* pem.Encode(keyOut, pemBlockForKey(priv)): the error it returns is not
\* looked at; pemBlockForKey may end the process, and a nil block panics.
GenEncodeKey ==
    /\ GcRunning("encodeKey")
    /\ \E marshalOk \in BOOLEAN, out \in {"pem", "partial", "empty"} :
        LET block == PemBlockForKey(priv, marshalOk)
        IN  IF block.kind = "block"
            THEN /\ ioLog' = Append(ioLog, Io("encode key.pem", out = "pem"))
                 /\ fs' = [fs EXCEPT !.key = out]
                 /\ gcPc' = "closeKey"
                 /\ UNCHANGED exitCode
            ELSE /\ exitCode' = 2
                 /\ UNCHANGED <<ioLog, fs, gcPc>>
    /\ UNCHANGED <<hosts, gcErr, priv, template, fs0, runVars, keygen, certgen,
                   dumpConfig, configFile, managerConf, mainPc, stdout, configOpens>>

\* keyOut.Close(): the error it returns is not looked at
GenCloseKey ==
    /\ GcRunning("closeKey")
    /\ \E ok \in BOOLEAN : ioLog' = Append(ioLog, Io("close key.pem", ok))
    /\ gcPc' = "logKey"
    /\ UNCHANGED <<hosts, gcErr, priv, template, fs, fs0, cliVars, runVars>>

\* log.Info("Written key.pem"); return nil
GenLogKey ==
    /\ GcRunning("logKey")
    /\ ioLog' = Append(ioLog, Io("log Written key.pem", TRUE))
    /\ GcReturn("")
    /\ UNCHANGED <<hosts, priv, template, fs, fs0, cliVars, runVars>>

GenNext ==
    \/ GenCheckHosts \/ GenKey \/ GenSerial \/ GenTemplate
    \/ GenCreateCertificate
    \/ GenOpenCert \/ GenEncodeCert \/ GenCloseCert \/ GenLogCert
    \/ GenOpenKey \/ GenEncodeKey \/ GenCloseKey \/ GenLogKey

\* Host lists of at most MaxHosts hosts.
HostLists == UNION {[1..n -> HostUniverse] : n \in 0..MaxHosts}

FsStart == [cert : {"absent", "old"}, key : {"absent", "old"}]

\* generateCert entered by a caller with any host list.
GenInit ==
    /\ keygen = FALSE /\ certgen = TRUE /\ dumpConfig = FALSE
    /\ configFile = [status |-> "ok", Host |-> Host_empty]
    /\ managerConf = [Host |-> Host_empty]
    /\ mainPc = "inGenerateCert"
    /\ exitCode = -1
    /\ stdout = <<>>
    /\ configOpens = 0
    /\ hosts \in HostLists
    /\ gcPc = "entry"
    /\ gcErr = ""
    /\ priv = ""
    /\ template = EmptyTemplate
    /\ fs \in FsStart
    /\ fs0 = fs
    /\ ioLog = <<>>
    /\ manager = "Nil"
    /\ stopRequested = FALSE
    /\ calls = <<>>
    /\ notified = FALSE
    /\ listenerPc = "none"
    /\ signals = <<>>

GenSpec == GenInit /\ [][GenNext]_vars

\* -------------------------------------------------------------------- main

Exit(code) == exitCode' = code /\ mainPc' = "exited"

MainAt(pc) == Alive /\ mainPc = pc

\* Mutant of MainKeygen: the key is printed and main goes on.
MainKeygenNoExit ==
    /\ MainAt("flagKey")
    /\ stdout' = IF keygen THEN Append(stdout, "New API key") ELSE stdout
    /\ mainPc' = "flagDump"
    /\ UNCHANGED <<keygen, certgen, dumpConfig, configFile, managerConf,
                   exitCode, configOpens, gcVars, runVars>>

\* if keygen { print the new API key; os.Exit(0) }
MainKeygen ==
    /\ MainAt("flagKey")
    /\ IF keygen
       THEN stdout' = Append(stdout, "New API key") /\ Exit(0)
       ELSE mainPc' = "flagDump" /\ UNCHANGED <<stdout, exitCode>>
    /\ UNCHANGED <<keygen, certgen, dumpConfig, configFile, managerConf,
                   configOpens, gcVars, runVars>>

\* if dumpConfig { print json.MarshalIndent(ManagerConfig{}); os.Exit(0) };
\* a marshalling error panics (exit status 2).
MainDumpConfig ==
    /\ MainAt("flagDump")
    /\ IF dumpConfig
       THEN \E marshalOk \in BOOLEAN :
               IF marshalOk
               THEN stdout' = Append(stdout, "config skeleton") /\ Exit(0)
               ELSE Exit(2) /\ UNCHANGED stdout
       ELSE mainPc' = "loadConfig" /\ UNCHANGED <<stdout, exitCode>>
    /\ UNCHANGED <<keygen, certgen, dumpConfig, configFile, managerConf,
                   configOpens, gcVars, runVars>>

\* os.Open(config), ioutil.ReadAll, json.Unmarshal into managerConf; each
\* failure ends the process through log.LogErrorAndExit.
MainLoadConfig ==
    /\ MainAt("loadConfig")
    /\ configOpens' = configOpens + 1
    /\ IF configFile.status = "ok"
       THEN /\ managerConf' = [Host |-> configFile.Host]
            /\ mainPc' = "flagCertgen"
            /\ UNCHANGED exitCode
       ELSE Exit(1) /\ UNCHANGED managerConf
    /\ UNCHANGED <<keygen, certgen, dumpConfig, configFile, stdout, gcVars,
                   runVars>>

\* Mutant of CertgenHosts: an empty Host is left out of the list.
CertgenHostsSkipEmpty(conf) == IF conf.Host = <<>> THEN <<>> ELSE <<conf.Host>>

\* the argument of generateCert: []string{managerConf.Host}
CertgenHosts(conf) == <<conf.Host>>

\* if certgen { err = generateCert([]string{managerConf.Host}) ...
MainCertgen ==
    /\ MainAt("flagCertgen")
    /\ IF certgen
       THEN /\ hosts' = CertgenHosts(managerConf)
            /\ gcPc' = "entry"
            /\ mainPc' = "inGenerateCert"
       ELSE /\ mainPc' = "newManager"
            /\ UNCHANGED <<hosts, gcPc>>
    /\ UNCHANGED <<keygen, certgen, dumpConfig, configFile, managerConf,
                   exitCode, stdout, configOpens, gcErr, priv, template, fs,
                   fs0, ioLog, runVars>>

\* ... if err != nil { log.LogErrorAndExit(...) }; os.Exit(0) }
MainCertgenReturn ==
    /\ MainAt("inGenerateCert")
    /\ gcPc = "returned"
    /\ IF gcErr # "" THEN Exit(1) ELSE Exit(0)
    /\ UNCHANGED <<keygen, certgen, dumpConfig, configFile, managerConf,
                   stdout, configOpens, gcVars, runVars>>

Call(op) == [op |-> op, st |-> manager]

\* manager, err = collector.NewManager(&managerConf)
MainNewManager ==
    /\ MainAt("newManager")
    /\ \E ok \in BOOLEAN :
        IF ok
        THEN /\ manager' = "Created"
             /\ calls' = Append(calls, Call("NewManager"))
             /\ mainPc' = "notify"
             /\ UNCHANGED exitCode
        ELSE /\ calls' = Append(calls, Call("NewManager failed"))
             /\ Exit(1)
             /\ UNCHANGED manager
    /\ UNCHANGED <<keygen, certgen, dumpConfig, configFile, managerConf,
                   stdout, configOpens, gcVars, stopRequested, notified,
                   listenerPc, signals>>

\* signal.Notify(osSignals, os.Interrupt)
MainNotify ==
    /\ MainAt("notify")
    /\ notified' = TRUE
    /\ mainPc' = "go"
    /\ UNCHANGED <<keygen, certgen, dumpConfig, configFile, managerConf,
                   exitCode, stdout, configOpens, gcVars, manager,
                   stopRequested, calls, listenerPc, signals>>

\* go func() { ... }(): the listener goroutine exists, and has not run yet
MainGo ==
    /\ MainAt("go")
    /\ listenerPc' = "spawned"
    /\ mainPc' = "run"
    /\ UNCHANGED <<keygen, certgen, dumpConfig, configFile, managerConf,
                   exitCode, stdout, configOpens, gcVars, manager,
                   stopRequested, calls, notified, signals>>

\* ------------------------------------------- the manager (collector.Manager)

\* Run is entered: a created manager runs.
RunEnter(m) == IF m = "Created" THEN "Running" ELSE m

\* Run blocks until the manager stops naturally or is shut down.
RunReturns(m) == m \in {"ShuttingDown", "Stopped"}

\* Wait blocks until the manager has fully stopped.
WaitReturns(m) == m = "Stopped"

\* Shutdown requests a graceful stop: a running manager starts to shut
\* down, one that does not run yet will stop once it does.
ShutdownState(m) == IF m = "Running" THEN "ShuttingDown" ELSE m

ShutdownPending(m, req) == req \/ m = "Created"

\* The run loop ends on its own.
ManagerStopsNaturally ==
    /\ Alive
    /\ manager = "Running"
    /\ manager' = "ShuttingDown"
    /\ UNCHANGED <<cliVars, gcVars, stopRequested, calls, notified,
                   listenerPc, signals>>

\* The run loop sees a stop requested before it started.
ManagerHonoursRequest ==
    /\ Alive
    /\ manager = "Running"
    /\ stopRequested
    /\ manager' = "ShuttingDown"
    /\ UNCHANGED <<cliVars, gcVars, stopRequested, calls, notified,
                   listenerPc, signals>>

\* The manager confirms that it has fully stopped.
ManagerConfirmsStop ==
    /\ Alive
    /\ manager = "ShuttingDown"
    /\ manager' = "Stopped"
    /\ UNCHANGED <<cliVars, gcVars, stopRequested, calls, notified,
                   listenerPc, signals>>

\* ------------------------------------------------------------ the run path

\* manager.Run() is called
MainRun ==
    /\ MainAt("run")
    /\ calls' = Append(calls, Call("Run"))
    /\ manager' = RunEnter(manager)
    /\ mainPc' = "inRun"
    /\ UNCHANGED <<keygen, certgen, dumpConfig, configFile, managerConf,
                   exitCode, stdout, configOpens, gcVars, stopRequested,
                   notified, listenerPc, signals>>

\* Mutant of MainRunReturn: main returns without calling manager.Wait().
MainRunReturnSkipWait ==
    /\ MainAt("inRun")
    /\ RunReturns(manager)
    /\ Exit(0)
    /\ UNCHANGED <<keygen, certgen, dumpConfig, configFile, managerConf,
                   stdout, configOpens, gcVars, runVars>>

\* manager.Run() returns and manager.Wait() is called
MainRunReturn ==
    /\ MainAt("inRun")
    /\ RunReturns(manager)
    /\ calls' = Append(calls, Call("Wait"))
    /\ mainPc' = "wait"
    /\ UNCHANGED <<keygen, certgen, dumpConfig, configFile, managerConf,
                   exitCode, stdout, configOpens, gcVars, manager,
                   stopRequested, notified, listenerPc, signals>>

\* manager.Wait() returns and main returns: the process ends with status 0
MainWaitReturn ==
    /\ MainAt("wait")
    /\ WaitReturns(manager)
    /\ calls' = Append(calls, Call("Wait returned"))
    /\ Exit(0)
    /\ UNCHANGED <<keygen, certgen, dumpConfig, configFile, managerConf,
                   stdout, configOpens, gcVars, manager, stopRequested,
                   notified, listenerPc, signals>>

\* The listener goroutine is scheduled and blocks in <-osSignals.
ListenerBlock ==
    /\ Alive
    /\ listenerPc = "spawned"
    /\ listenerPc' = "recv"
    /\ UNCHANGED <<cliVars, gcVars, manager, stopRequested, calls, notified,
                   signals>>

\* An interrupt reaches the process after signal.Notify.  The signal
\* package sends on osSignals without blocking: the channel has no buffer
\* (make(chan os.Signal)), so the send succeeds only when the listener is
\* blocked in its receive, and the signal is dropped otherwise.
SignalDeliver ==
    /\ Alive
    /\ notified
    /\ Len(signals) < MaxSignals
    /\ IF listenerPc = "recv"
       THEN /\ signals' = Append(signals, "received")
            /\ listenerPc' = "received"
       ELSE /\ signals' = Append(signals, "dropped")
            /\ UNCHANGED listenerPc
    /\ UNCHANGED <<cliVars, gcVars, manager, stopRequested, calls, notified>>

\* Mutant of ListenerShutdown: the goroutine loops back to its receive.
ListenerShutdownLoop ==
    /\ Alive
    /\ listenerPc = "received"
    /\ calls' = Append(calls, Call("Shutdown"))
    /\ stopRequested' = ShutdownPending(manager, stopRequested)
    /\ manager' = ShutdownState(manager)
    /\ listenerPc' = "recv"
    /\ UNCHANGED <<cliVars, gcVars, notified, signals>>

\* log.Infof("Received SIGINT, ..."); manager.Shutdown(); the goroutine ends
ListenerShutdown ==
    /\ Alive
    /\ listenerPc = "received"
    /\ calls' = Append(calls, Call("Shutdown"))
    /\ stopRequested' = ShutdownPending(manager, stopRequested)
    /\ manager' = ShutdownState(manager)
    /\ listenerPc' = "done"
    /\ UNCHANGED <<cliVars, gcVars, notified, signals>>

\* ----------------------------------------------------------- specification

ConfigFiles ==
    {[status |-> st, Host |-> Host_empty] :
        st \in {"open failed", "read failed", "parse failed"}}
    \cup {[status |-> "ok", Host |-> h] : h \in HostUniverse}

Init ==
    /\ keygen \in BOOLEAN /\ certgen \in BOOLEAN /\ dumpConfig \in BOOLEAN
    /\ configFile \in ConfigFiles
    /\ managerConf = [Host |-> Host_empty]
    /\ mainPc = "flagKey"
    /\ exitCode = -1
    /\ stdout = <<>>
    /\ configOpens = 0
    /\ hosts = <<>>
    /\ gcPc = "idle"
    /\ gcErr = ""
    /\ priv = ""
    /\ template = EmptyTemplate
    /\ fs \in FsStart
    /\ fs0 = fs
    /\ ioLog = <<>>
    /\ manager = "Nil"
    /\ stopRequested = FALSE
    /\ calls = <<>>
    /\ notified = FALSE
    /\ listenerPc = "none"
    /\ signals = <<>>

MainNext ==
    \/ MainKeygen \/ MainDumpConfig \/ MainLoadConfig
    \/ MainCertgen \/ MainCertgenReturn
    \/ MainNewManager \/ MainNotify \/ MainGo
    \/ MainRun \/ MainRunReturn \/ MainWaitReturn

ListenerNext == ListenerBlock \/ ListenerShutdown

Next ==
    \/ MainNext
    \/ GenNext
    \/ ListenerNext
    \/ SignalDeliver
    \/ ManagerStopsNaturally \/ ManagerHonoursRequest \/ ManagerConfirmsStop

Spec == Init /\ [][Next]_vars

\* The scheduler runs every goroutine that can take a step, and a manager
\* that was asked to stop does stop; nothing obliges the environment to
\* send an interrupt or the run loop to end on its own.
LiveSpec ==
    /\ Init
    /\ [][Next]_vars
    /\ WF_vars(MainNext \/ GenNext)
    /\ WF_vars(ListenerNext)
    /\ WF_vars(ManagerHonoursRequest \/ ManagerConfirmsStop)

\* ------------------------------------------------------------------ claims

Range(q) == {q[i] : i \in DOMAIN q}

CallsOf(op) == {i \in DOMAIN calls : calls[i].op = op}

ShutdownCalls == Cardinality(CallsOf("Shutdown"))

IoOf(op) == {i \in DOMAIN ioLog : ioLog[i].op = op}

NoDuplicates(q) == \A i, j \in DOMAIN q : q[i] = q[j] => i = j

\* The template's SAN lists have been filled.
TemplateBuilt == IoOf("x509.CreateCertificate") # {}

\* C4: generateCert called with an empty host list returns the missing-host
\* error, and has then generated no key, signed nothing, and neither created
\* nor truncated cert.pem or key.pem.
C4_EmptyHostsNoEffect ==
    hosts = <<>> =>
        /\ gcPc \in {"entry", "returned"}
        /\ gcPc = "returned" => gcErr = "Missing required --host parameter"
        /\ ioLog = <<>>
        /\ priv = ""
        /\ fs = fs0

C4_Witness ==
    /\ hosts = <<>>
    /\ gcPc = "returned"
    /\ gcErr # ""
    /\ fs0 = [cert |-> "old", key |-> "old"]

\* C5: for every non-empty host list, once the template is built its SAN
\* lists are the IP/DNS classification of the hosts: the IP entries are the
\* parsed IP literals, the DNS entries the other hosts, and no entry appears
\* twice in a list.
C5_SanIsClassification ==
    (hosts # <<>> /\ TemplateBuilt) =>
        /\ Range(template.IPAddresses) =
               {ParseIP(h) : h \in {g \in Range(hosts) : ParseIP(g) # <<>>}}
        /\ Range(template.DNSNames) = {h \in Range(hosts) : ParseIP(h) = <<>>}
        /\ NoDuplicates(template.IPAddresses)
        /\ NoDuplicates(template.DNSNames)

PersistenceOps ==
    {"open cert.pem", "encode cert.pem", "close cert.pem",
     "open key.pem", "encode key.pem", "close key.pem"}

WrittenLogs == {"log Written cert.pem", "log Written key.pem"}

\* C6: after a failure to open, encode/write or close cert.pem or key.pem,
\* generateCert reports no "Written ..." line and does not return success.
C6_IoFailureAborts ==
    \A i \in DOMAIN ioLog :
        (ioLog[i].op \in PersistenceOps /\ ~ioLog[i].ok) =>
            /\ \A j \in DOMAIN ioLog : j > i => ioLog[j].op \notin WrittenLogs
            /\ ~(gcPc = "returned" /\ gcErr = "")

\* C7: cert.pem is encoded and closed before key.pem is opened; when
\* opening key.pem fails the error is returned with cert.pem as the first
\* half left it and key.pem untouched; when cert.pem cannot be opened
\* key.pem is never opened or written.
C7_CertBeforeKey ==
    /\ \A i \in IoOf("open key.pem") :
          /\ \E j \in IoOf("encode cert.pem") : j < i
          /\ \E j \in IoOf("close cert.pem") : j < i
    /\ (gcPc = "returned" /\ gcErr = "failed to open key.pem for writing") =>
          /\ fs.cert \in {"empty", "partial", "pem"}
          /\ Io("encode cert.pem", TRUE) \in Range(ioLog) => fs.cert = "pem"
          /\ fs.key = fs0.key
    /\ Io("open cert.pem", FALSE) \in Range(ioLog) =>
          /\ gcPc = "returned"
          /\ gcErr = "failed to open cert.pem for writing"
          /\ IoOf("open key.pem") = {}
          /\ fs = fs0

C7_Witness ==
    /\ gcPc = "returned"
    /\ gcErr = "failed to open key.pem for writing"
    /\ fs.cert = "pem"
    /\ fs0 = [cert |-> "old", key |-> "old"]
    /\ fs.key = "old"

\* The four actions of one invocation.
DidKey == "New API key" \in Range(stdout)

DidDump == "config skeleton" \in Range(stdout)

DidCertgen == gcPc # "idle"

DidManager == CallsOf("NewManager") # {} \/ CallsOf("NewManager failed") # {}

ActionsDone ==
    {a \in {"key", "dump", "certgen", "run"} :
        \/ a = "key" /\ DidKey
        \/ a = "dump" /\ DidDump
        \/ a = "certgen" /\ DidCertgen
        \/ a = "run" /\ DidManager}

\* C3: one invocation performs at most one of the four actions; printing
\* the key and dumping the skeleton end the process with status 0 without
\* the configuration file being opened; a completed certificate generation
\* ends it with status 0; none of the three constructs the manager, which
\* is constructed only when none of the three flags is set.
C3_OneAction ==
    /\ Cardinality(ActionsDone) <= 1
    /\ (DidKey \/ DidDump) => (exitCode = 0 /\ configOpens = 0)
    /\ (DidCertgen /\ mainPc = "exited" /\ gcPc = "returned" /\ gcErr = "")
          => exitCode = 0
    /\ (DidKey \/ DidDump \/ DidCertgen) => (manager = "Nil" /\ ~DidManager)
    /\ (keygen \/ dumpConfig \/ certgen) => (manager = "Nil" /\ ~DidManager)

C3_Witness ==
    /\ keygen /\ dumpConfig /\ certgen
    /\ configFile.status = "ok"
    /\ mainPc = "exited"
    /\ ActionsDone = {"key"}

\* C10: on the -certgen path generateCert gets exactly one host, the
\* configured Host, so it never returns the missing-host error; with an
\* empty Host it goes on to key generation and file writing, its template
\* holding one DNS entry (the empty string) and no IP entry.
C10_CertgenOneHost ==
    DidCertgen =>
        /\ hosts = <<managerConf.Host>>
        /\ Len(hosts) = 1
        /\ gcErr # "Missing required --host parameter"
        /\ (gcPc = "returned" /\ managerConf.Host = <<>>) =>
              IoOf("rsa.GenerateKey") # {}
        /\ (TemplateBuilt /\ managerConf.Host = <<>>) =>
              template = [IPAddresses |-> <<>>, DNSNames |-> << <<>> >>]

C10_Witness ==
    /\ managerConf.Host = <<>>
    /\ configFile.status = "ok"
    /\ mainPc = "exited" /\ exitCode = 0
    /\ gcPc = "returned" /\ gcErr = ""
    /\ template.DNSNames = << <<>> >>
    /\ fs = [cert |-> "pem", key |-> "pem"]

\* C2: on the run path the process ends only with status 0 and only after
\* manager.Wait has returned on a stopped manager; this needs neither an
\* interrupt, nor a call of Shutdown, nor the end of the listener.
C2_ExitAfterWait ==
    (mainPc = "exited" /\ CallsOf("Run") # {}) =>
        /\ exitCode = 0
        /\ \E i \in CallsOf("Wait returned") :
              /\ calls[i].st = "Stopped"
              /\ \E j \in CallsOf("Wait") : j < i
              /\ \A j \in CallsOf("Run") \cup CallsOf("Wait") : j < i

C2_Witness ==
    /\ mainPc = "exited" /\ exitCode = 0
    /\ CallsOf("Run") # {}
    /\ signals = <<>>
    /\ ShutdownCalls = 0
    /\ listenerPc = "recv"

\* C9: whatever interrupts arrive, manager.Shutdown is invoked at most
\* once: the listener receives one interrupt and ends, and every interrupt
\* after the received one is dropped.
C9_ShutdownAtMostOnce ==
    /\ ShutdownCalls <= 1
    /\ ShutdownCalls = 1 => listenerPc = "done"
    /\ \A i, j \in DOMAIN signals :
          (signals[i] = "received" /\ j > i) => signals[j] = "dropped"
    /\ (listenerPc \in {"received", "done"}) <=> ("received" \in Range(signals))

C9_Witness ==
    /\ signals = <<"received", "dropped">>
    /\ ShutdownCalls = 1
    /\ listenerPc = "done"

ForwardEdges ==
    {<<"Nil", "Created">>, <<"Created", "Running">>,
     <<"Running", "ShuttingDown">>, <<"ShuttingDown", "Stopped">>}

\* C8: the handle only moves Created -> Running -> ShuttingDown -> Stopped,
\* and Shutdown is never invoked on a handle that is still Created or
\* already Stopped.
C8_ForwardAndShutdownWhileRunning ==
    [][/\ manager' # manager => <<manager, manager'>> \in ForwardEdges
       /\ \A i \in CallsOf("Shutdown")' :
             calls'[i].st \notin {"Created", "Stopped"}]_vars

\* C1: when the run loop does not end on its own and one interrupt is
\* delivered after signal.Notify, the interrupt leads to exactly one call of
\* manager.Shutdown and to the return of manager.Wait: the notification is
\* not lost and the process does not hang.
C1_InterruptShutsDown ==
    ([](Len(signals) <= 1) /\ [](manager = "ShuttingDown" => ShutdownCalls = 1))
        => ((Len(signals) = 1) ~>
                (ShutdownCalls = 1 /\ CallsOf("Wait returned") # {}))

====
